---- MODULE Spec2Model ----
(***************************************************************************)
(* A model of spreg's formula front end (src/spreg/sklearn/formula.py) and *)
(* of the fixed-effects spatial-lag panel estimator (src/spreg/panel_fe.py)*)
(*                                                                         *)
(* Strings are sequences of one-character strings and are indexed from 0   *)
(* by the operators that model Python's str methods, as in the source.     *)
(***************************************************************************)
EXTENDS Integers, Sequences, FiniteSets, TLC

VARIABLES formula, call, inp, stage, entered, self, loc, srch, exc, returned

fvars == <<formula, call>>

pvars == <<inp, stage, entered, self, loc, srch, exc, returned>>

vars == <<formula, call, inp, stage, entered, self, loc, srch, exc, returned>>

(***************************************************************************)
(* Bounds of the formula inputs.                                           *)
(***************************************************************************)
MaxTerms == 3

(***************************************************************************)
(* Python's str and list methods, as from_formula uses them.               *)
(***************************************************************************)
MinOf(S) == CHOOSE m \in S : \A o \in S : m <= o

\* s[a:b] for 0 <= a, 0 <= b
Slice(s, a, b) == SubSeq(s, a + 1, IF b > Len(s) THEN Len(s) ELSE b)

\* s[a:]
SliceFrom(s, a) == SubSeq(s, a + 1, Len(s))

\* s[:-m]
DropLast(s, m) == SubSeq(s, 1, Len(s) - m)

\* s.find(sub, start): the lowest index >= start where sub begins, or -1
Find(s, sub, start) ==
    LET hits == { i \in start .. (Len(s) - Len(sub)) :
                      SubSeq(s, i + 1, i + Len(sub)) = sub }
    IN  IF hits = {} THEN -1 ELSE MinOf(hits)

\* s.split(sep): the pieces between the non-overlapping occurrences of sep
RECURSIVE Split(_, _)
Split(s, sep) ==
    LET i == Find(s, sep, 0)
    IN  IF i < 0 THEN <<s>>
        ELSE <<Slice(s, 0, i)>> \o Split(SliceFrom(s, i + Len(sep)), sep)

\* sep.join(lst)
RECURSIVE Join(_, _)
Join(lst, sep) ==
    IF Len(lst) = 0 THEN <<>>
    ELSE IF Len(lst) = 1 THEN lst[1]
    ELSE lst[1] \o sep \o Join(Tail(lst), sep)

\* s.strip(): blanks are the only white space of the alphabet
RECURSIVE LStrip(_)
LStrip(s) == IF Len(s) > 0 /\ s[1] = " " THEN LStrip(Tail(s)) ELSE s

RECURSIVE RStrip(_)
RStrip(s) == IF Len(s) > 0 /\ s[Len(s)] = " " THEN RStrip(DropLast(s, 1)) ELSE s

Strip(s) == RStrip(LStrip(s))

\* el in lst
In(el, lst) == \E i \in 1 .. Len(lst) : lst[i] = el

\* lst.remove(el): drops the first occurrence
ListRemove(lst, el) ==
    LET i == MinOf({ j \in 1 .. Len(lst) : lst[j] = el })
    IN  SubSeq(lst, 1, i - 1) \o SubSeq(lst, i + 1, Len(lst))

noninplace_remove(lst, el) == ListRemove(lst, el)

Count(s, c) == Cardinality({ i \in 1 .. Len(s) : s[i] = c })

(***************************************************************************)
(* String literals of formula.py.                                          *)
(***************************************************************************)
PLUS == <<" ", "+", " ">>
TILDE == <<" ", "~", " ">>
MINUS_ONE == <<" ", "-", " ", "1">>
LAG_OPEN == <<"{">>
\* "bq" stands for the back quote character
LAG_MID == <<".", "s", "p", "a", "r", "s", "e", " ", "@", " ", "bq">>
LAG_CLOSE == <<"bq", "}">>

\* expand_lag(w_name, fields), fields a list
RECURSIVE LagTerms(_, _)
LagTerms(w_name, fields) ==
    IF Len(fields) = 0 THEN <<>>
    ELSE <<LAG_OPEN \o w_name \o LAG_MID \o fields[1] \o LAG_CLOSE>>
             \o LagTerms(w_name, Tail(fields))

expand_lag(w_name, fields) == Join(LagTerms(w_name, fields), PLUS)

W_NAME == <<"w">>

(***************************************************************************)
(* from_formula, lines 154-188: the loop over the angle-bracket groups.    *)
(* A loop state is the loop's local variables; err is the exception the    *)
(* loop raised, "" when none.                                              *)
(***************************************************************************)
LagLoopGuard(lag_start_idx) == lag_start_idx > 0

\* lines 170-181: one group's fields appended to parsed_formula
ExpandGroup(parsed_formula, fields) ==
    IF Len(fields) > 0
    THEN parsed_formula \o Join(fields, PLUS) \o PLUS \o expand_lag(W_NAME, fields)
    ELSE DropLast(parsed_formula, 3)

RECURSIVE LagLoop(_, _, _)
LagLoop(f, y_name, st) ==
    IF ~LagLoopGuard(st.lag_start_idx) THEN st
    ELSE
      LET lag_end_idx == Find(f, <<">">>, st.lag_start_idx + 1)
      IN  IF lag_end_idx < 0
          THEN [st EXCEPT !.spatial_model = TRUE,
                          !.lag_end_idx = lag_end_idx,
                          !.err = "Mismatched angle brackets"]
          ELSE
            LET lag_str == Slice(f, st.lag_start_idx + 1, lag_end_idx)
                fields0 == Split(lag_str, PLUS)
                has_y == In(y_name, fields0)
                fields == IF has_y THEN ListRemove(fields0, y_name)
                          ELSE fields0
                parsed1 == ExpandGroup(st.parsed_formula, fields)
                next_idx == Find(f, <<"<">>, st.lag_start_idx + 1)
                parsed2 == IF next_idx >= 0
                           THEN parsed1 \o Slice(f, lag_end_idx + 1, next_idx)
                           ELSE parsed1
            IN  LagLoop(f, y_name,
                        [lag_start_idx |-> next_idx,
                         lag_end_idx |-> lag_end_idx,
                         parsed_formula |-> parsed2,
                         lag_model |-> (st.lag_model \/ has_y),
                         spatial_model |-> TRUE,
                         err |-> ""])

\* lines 154-188
ParseLags(f) ==
    LET lag_start_idx == Find(f, <<"<">>, 0)
        y_name == Strip(Split(f, <<"~">>)[1])
        st == LagLoop(f, y_name,
                      [lag_start_idx |-> lag_start_idx,
                       lag_end_idx |-> -1,
                       parsed_formula |->
                           IF lag_start_idx >= 0 THEN Slice(f, 0, lag_start_idx)
                           ELSE <<>>,
                       lag_model |-> FALSE,
                       spatial_model |-> FALSE,
                       err |-> ""])
    IN  IF st.err # "" THEN st
        ELSE [st EXCEPT !.parsed_formula = @ \o SliceFrom(f, st.lag_end_idx + 1)]

(***************************************************************************)
(* from_formula, lines 190-196: the spatial error term.                    *)
(***************************************************************************)
ParseErr(lhs, rhs) ==
    LET terms == Split(rhs, PLUS)
        err_model == In(<<"&">>, terms)
    IN  [err_model |-> err_model,
         parsed_formula |->
             IF err_model
             THEN lhs \o TILDE \o Join(noninplace_remove(terms, <<"&">>), PLUS)
             ELSE lhs \o TILDE \o rhs]

\* method.lower(), on the letters the methods are written with
LowerChar(c) ==
    CASE c = "G" -> "g" [] c = "M" -> "m" [] c = "L" -> "l" [] c = "U" -> "u"
      [] c = "F" -> "f" [] c = "O" -> "o" [] c = "R" -> "r" [] c = "D" -> "d"
      [] OTHER -> c

Lower(s) == [i \in 1 .. Len(s) |-> LowerChar(s[i])]

ValidMethods == { <<"g", "m">>, <<"f", "u", "l", "l">>, <<"l", "u">>,
                  <<"o", "r", "d">> }

\* a dispatch that tests the lag flag before the combination
DispatchLagFirst(lag_model, err_model) ==
    IF ~(err_model \/ lag_model) THEN "LinearRegression"
    ELSE IF lag_model THEN "Lag"
    ELSE "Error"

\* lines 216-226: the estimator the flags select, "" for the Combo error
Dispatch(lag_model, err_model) ==
    IF ~(err_model \/ lag_model) THEN "LinearRegression"
    ELSE IF err_model /\ lag_model THEN ""
    ELSE IF lag_model THEN "Lag"
    ELSE "Error"

\* the weights test of line 198
NeedsWeights(spatial_model, w_given) == spatial_model /\ ~w_given

\* the test of line 151
Malformed(farg) == farg.type # "str" \/ Len(farg.val) < 5

(***************************************************************************)
(* The outcome of one call of from_formula: the exception raised (error,   *)
(* "" when the call returned), the formula handed to model_matrix when it  *)
(* was called, the flags, the estimators constructed and the value         *)
(* returned.                                                               *)
(***************************************************************************)
Outcome(error, parsed, p, mm_called, fitted, w_given, debug) ==
    [status |-> IF error = "" THEN "returned" ELSE "raised",
     error |-> error,
     w_given |-> w_given,
     parsed_formula |-> parsed,
     lag_model |-> p.lag_model,
     err_model |-> p.err_model,
     spatial_model |-> p.spatial_model,
     mm_called |-> mm_called,
     fitted |-> fitted,
     model |-> IF error = "" THEN fitted[1] ELSE "None",
     debug_formula |-> IF error = "" /\ debug THEN parsed ELSE <<>>]

\* lines 150-196: what from_formula works out from the formula alone
ParseFormula(farg) ==
    IF Malformed(farg)
    THEN [err |-> "Malformed formula string", parsed_formula |-> <<>>,
          lag_model |-> FALSE, err_model |-> FALSE, spatial_model |-> FALSE]
    ELSE
    LET lags == ParseLags(farg.val) IN
    IF lags.err # ""
    THEN [err |-> lags.err, parsed_formula |-> lags.parsed_formula,
          lag_model |-> lags.lag_model, err_model |-> FALSE,
          spatial_model |-> lags.spatial_model]
    ELSE
    LET sides == Split(lags.parsed_formula, TILDE) IN
    IF Len(sides) # 2
    THEN [err |-> "ValueError: values to unpack",
          parsed_formula |-> lags.parsed_formula,
          lag_model |-> lags.lag_model, err_model |-> FALSE,
          spatial_model |-> lags.spatial_model]
    ELSE
    LET pe == ParseErr(sides[1], sides[2])
    IN  [err |-> "", parsed_formula |-> pe.parsed_formula,
         lag_model |-> lags.lag_model, err_model |-> pe.err_model,
         spatial_model |-> (lags.spatial_model \/ pe.err_model)]

\* lines 198-230, after the parse p of the formula
Estimate(p, w_given, method, debug, mm_ok, fit_ok) ==
    IF p.err # ""
    THEN Outcome(p.err, p.parsed_formula, p, FALSE, <<>>, w_given, debug)
    ELSE IF NeedsWeights(p.spatial_model, w_given)
    THEN Outcome("Requested spatial model but did not provide weights matrix",
                 p.parsed_formula, p, FALSE, <<>>, w_given, debug)
    ELSE
    LET parsed == p.parsed_formula \o MINUS_ONE
        kind == Dispatch(p.lag_model, p.err_model)
    IN
    IF ~mm_ok
    THEN Outcome("model_matrix raised", parsed, p, TRUE, <<>>, w_given, debug)
    ELSE IF Lower(method) \notin ValidMethods
    THEN Outcome("Method must be 'gm', 'full', 'lu', 'ord'", parsed, p, TRUE,
                 <<>>, w_given, debug)
    ELSE IF kind = ""
    THEN Outcome("Combo models not supported in sklearn style", parsed, p,
                 TRUE, <<>>, w_given, debug)
    ELSE IF ~fit_ok
    THEN Outcome("fit raised", parsed, p, TRUE, <<kind>>, w_given, debug)
    ELSE Outcome("", parsed, p, TRUE, <<kind>>, w_given, debug)

from_formula(farg, w_given, method, debug, mm_ok, fit_ok) ==
    Estimate(ParseFormula(farg), w_given, method, debug, mm_ok, fit_ok)

(***************************************************************************)
(* The formulas a caller passes: a left-hand side, a separator and up to   *)
(* MaxTerms terms joined by " + "; or a value that is not a string.        *)
(***************************************************************************)
LhsSet == { <<"y">>, <<"<", "x", ">">>, <<"<", "y">>, <<"a", "~", "y">> }

SepSet == { TILDE, <<"~">>, <<>> }

TermSet == { <<"x">>,
             <<"<", "x", ">">>,
             <<"<", "y", ">">>,
             <<"<", "x", " ", "+", " ", "z", ">">>,
             <<"<", "y", " ", "+", " ", "x", ">">>,
             <<"&">>,
             <<"<", "x">>,
             <<"z", ">">> }

TermLists == UNION { [1 .. m -> TermSet] : m \in 1 .. MaxTerms }

Formulas ==
    { [type |-> "str", val |-> l \o sep \o Join(ts, PLUS)] :
          l \in LhsSet, sep \in SepSet, ts \in TermLists }
    \cup { [type |-> "list", val |-> <<<<"y">> \o TILDE \o <<"x">>>>] }

\* the method argument, and whether model_matrix and the estimator's fit
\* return (TRUE) or raise: the call as written, and each way it can fail
Environments ==
    { [method |-> <<"L", "U">>, mm_ok |-> TRUE, fit_ok |-> TRUE],
      [method |-> <<"o", "l", "s">>, mm_ok |-> TRUE, fit_ok |-> TRUE],
      [method |-> <<"g", "m">>, mm_ok |-> FALSE, fit_ok |-> TRUE],
      [method |-> <<"g", "m">>, mm_ok |-> TRUE, fit_ok |-> FALSE] }

Idle == [status |-> "idle"]

FInit ==
    /\ formula \in Formulas
    /\ call = Idle
    /\ inp = [cls |-> "none"]
    /\ stage = "Idle"
    /\ entered = <<>>
    /\ self = <<>>
    /\ loc = <<>>
    /\ srch = [n_trials |-> 0]
    /\ exc = ""
    /\ returned = "none"

\* one call of from_formula(formula, df, w, method, debug)
FromFormula ==
    /\ call.status = "idle"
    /\ LET p == ParseFormula(formula)
       IN  \E w_given \in BOOLEAN, debug \in BOOLEAN, e \in Environments :
              call' = Estimate(p, w_given, e.method, debug, e.mm_ok, e.fit_ok)
    /\ UNCHANGED <<formula, inp, stage, entered, self, loc, srch, exc, returned>>

FNext == FromFormula

FormulaSpec == FInit /\ [][FNext]_vars

(***************************************************************************)
(* What the claims say of a formula, read off the formula itself.          *)
(***************************************************************************)
\* the nesting depth after each prefix of s; -1 once a ">" closes nothing
RECURSIVE DepthAfter(_, _)
DepthAfter(s, d) ==
    IF d < 0 \/ Len(s) = 0 THEN d
    ELSE IF s[1] = "<" THEN DepthAfter(Tail(s), d + 1)
    ELSE IF s[1] = ">" THEN DepthAfter(Tail(s), d - 1)
    ELSE DepthAfter(Tail(s), d)

\* every "<" has a later ">" of its own and every ">" an earlier "<"
Balanced(s) == DepthAfter(s, 0) = 0

\* balanced, and no group opens inside another
RECURSIVE Flat(_, _)
Flat(s, open) ==
    IF Len(s) = 0 THEN ~open
    ELSE IF s[1] = "<" THEN ~open /\ Flat(Tail(s), TRUE)
    ELSE IF s[1] = ">" THEN open /\ Flat(Tail(s), FALSE)
    ELSE Flat(Tail(s), open)

WellFormedGroups(s) == Flat(s, FALSE)

\* the fields of each group of a formula with well formed groups, in order
RECURSIVE Groups(_)
Groups(s) ==
    LET i == Find(s, <<"<">>, 0)
        j == Find(s, <<">">>, i + 1)
    IN  IF i < 0 \/ j < 0 THEN <<>>
        ELSE <<Split(Slice(s, i + 1, j), PLUS)>> \o Groups(SliceFrom(s, j + 1))

HasGroup(s) ==
    \E i, j \in 1 .. Len(s) : i < j /\ s[i] = "<" /\ s[j] = ">"

ResponseName(s) == Strip(Slice(s, 0, Find(s, <<"~">>, 0)))

ResponseInGroup(s) ==
    \E g \in 1 .. Len(Groups(s)) : In(ResponseName(s), Groups(s)[g])

\* the terms of the right-hand side
RhsTerms(s) == Split(Strip(SliceFrom(s, Find(s, <<"~">>, 0) + 1)), PLUS)

HasErrorTerm(s) == In(<<"&">>, RhsTerms(s))

\* a string with one "~", written " ~ "
OneTilde(s) == Count(s, "~") = 1 /\ Len(Split(s, TILDE)) = 2

\* `F1 + ... + Fn + {w.sparse @ `F1`} + ... + {w.sparse @ `Fn`}`
LagOf(field) ==
    <<"{", "w", ".", "s", "p", "a", "r", "s", "e", " ", "@", " ", "bq">>
        \o field \o <<"bq", "}">>

GroupExpansion(fields) ==
    Join(fields \o [i \in 1 .. Len(fields) |-> LagOf(fields[i])], PLUS)

\* every group replaced in place, the text outside the groups kept
RECURSIVE Expanded(_)
Expanded(s) ==
    LET i == Find(s, <<"<">>, 0)
        j == Find(s, <<">">>, i + 1)
    IN  IF i < 0 \/ j < 0 THEN s
        ELSE Slice(s, 0, i) \o GroupExpansion(Split(Slice(s, i + 1, j), PLUS))
                 \o Expanded(SliceFrom(s, j + 1))

Called == call.status # "idle"

IsStr == formula.type = "str"

MissingWeights ==
    "Requested spatial model but did not provide weights matrix"

(***************************************************************************)
(* C1: with weights provided, a formula whose groups are all well formed   *)
(* and do not contain the response reaches model_matrix with every group   *)
(* <F1 + ... + Fn>, wherever it stands, replaced in place by the fields    *)
(* and their lags, the text outside the groups unchanged, and " - 1"       *)
(* appended once.  Stated on the formulas where the lag expansion is the   *)
(* only rewriting: strings of five characters or more with one " ~ " and   *)
(* no & term.                                                              *)
(***************************************************************************)
C1_GroupsExpandedInPlace ==
    (/\ Called /\ IsStr /\ call.w_given
     /\ Len(formula.val) >= 5
     /\ OneTilde(formula.val)
     /\ WellFormedGroups(formula.val)
     /\ ~ResponseInGroup(formula.val)
     /\ ~HasErrorTerm(formula.val))
    => /\ call.mm_called
       /\ call.parsed_formula = Expanded(formula.val) \o MINUS_ONE

(***************************************************************************)
(* C2: a formula whose angle brackets are unbalanced (a "<" with no        *)
(* matching later ">", at any index, or a ">" with no earlier "<") makes   *)
(* from_formula raise before model_matrix is called.                       *)
(***************************************************************************)
C2_UnbalancedRaises ==
    (Called /\ IsStr /\ ~Balanced(formula.val))
    => (call.status = "raised" /\ ~call.mm_called)

(***************************************************************************)
(* C3: a formula with a spatial term (a <...> group, or & as a term of     *)
(* the right-hand side), passed with w = None, raises the missing-weights  *)
(* error, before model_matrix is called and before any estimator is        *)
(* constructed.  Stated on the strings of five characters or more with     *)
(* one " ~ " and well formed groups, which raise no earlier error.         *)
(***************************************************************************)
C3_MissingWeightsRaises ==
    (/\ Called /\ IsStr /\ ~call.w_given
     /\ Len(formula.val) >= 5
     /\ OneTilde(formula.val)
     /\ WellFormedGroups(formula.val)
     /\ (HasGroup(formula.val) \/ HasErrorTerm(formula.val)))
    => /\ call.error = MissingWeights
       /\ ~call.mm_called
       /\ call.fitted = <<>>

(***************************************************************************)
(* C4: a formula that is not a string, is shorter than 5 characters or     *)
(* does not hold exactly one "~" is rejected before model_matrix is        *)
(* called; only strings of 5 characters or more with exactly one "~"       *)
(* reach model_matrix.                                                     *)
(***************************************************************************)
C4_OnlyOneTildeReachesDesign ==
    Called =>
      /\ (~IsStr \/ Len(formula.val) < 5 \/ Count(formula.val, "~") # 1)
             => (call.status = "raised" /\ ~call.mm_called)
      /\ call.mm_called
             => (IsStr /\ Len(formula.val) >= 5 /\ Count(formula.val, "~") = 1)

(***************************************************************************)
(* C5: a call fits at most one estimator, the one the detected flags       *)
(* select: LinearRegression without a lag of the response and without &,   *)
(* Lag with the lag alone, Error with & alone (lags of covariates, which   *)
(* set spatial_model only, change nothing); with both the call raises the  *)
(* Combo error, fits nothing and returns nothing.                          *)
(***************************************************************************)
ComboError == "Combo models not supported in sklearn style"

C5_OneModelByFlags ==
    Called =>
      /\ Len(call.fitted) <= 1
      /\ call.status = "returned"
             => (Len(call.fitted) = 1 /\ call.model = call.fitted[1])
      /\ call.fitted # <<>> =>
             /\ (~call.lag_model /\ ~call.err_model)
                    => call.fitted[1] = "LinearRegression"
             /\ (call.lag_model /\ ~call.err_model) => call.fitted[1] = "Lag"
             /\ (~call.lag_model /\ call.err_model) => call.fitted[1] = "Error"
      /\ (call.lag_model /\ call.err_model) =>
             /\ call.status = "raised"
             /\ call.fitted = <<>>
             /\ call.model = "None"
             /\ (call.mm_called
                   /\ call.error \notin { "model_matrix raised",
                          "Method must be 'gm', 'full', 'lu', 'ord'" })
                    => call.error = ComboError

\* a formula with a lag of the response and & got as far as the dispatch
C5_Witness ==
    /\ call.status = "raised"
    /\ call.error = ComboError
    /\ call.lag_model /\ call.err_model
    /\ HasGroup(formula.val)

\* the terms of the right-hand side of the formula handed to model_matrix
DesignTerms(pf) == Split(Split(DropLast(pf, Len(MINUS_ONE)), TILDE)[2], PLUS)

(***************************************************************************)
(* C12: with weights provided, a formula with one " ~ " and well formed    *)
(* groups that names the response among the fields of a group sets         *)
(* lag_model and reaches model_matrix with <original lhs> ~ <rhs> - 1,     *)
(* where neither the response nor its lag is a term of the right-hand      *)
(* side; also when the response is the only field of the group and the     *)
(* group is the first term after the "~".                                  *)
(***************************************************************************)
C12_ResponseLagRemoved ==
    (/\ Called /\ IsStr /\ call.w_given
     /\ Len(formula.val) >= 5
     /\ OneTilde(formula.val)
     /\ WellFormedGroups(formula.val)
     /\ ResponseInGroup(formula.val))
    => /\ call.lag_model
       /\ call.mm_called
       /\ Len(Split(call.parsed_formula, TILDE)) = 2
       /\ Split(call.parsed_formula, TILDE)[1] = Split(formula.val, TILDE)[1]
       /\ SliceFrom(call.parsed_formula, Len(call.parsed_formula) - Len(MINUS_ONE))
              = MINUS_ONE
       /\ ~In(ResponseName(formula.val), DesignTerms(call.parsed_formula))
       /\ ~In(LagOf(ResponseName(formula.val)), DesignTerms(call.parsed_formula))

(***************************************************************************)
(*                                                                         *)
(* The fixed-effects spatial-lag panel estimator, src/spreg/panel_fe.py.   *)
(*                                                                         *)
(* Numbers are exact rationals <<num, den>> in lowest terms with den > 0;  *)
(* den = 0 stands for the values a floating-point division by zero         *)
(* leaves: <<1, 0>> is inf, <<-1, 0>> is -inf and <<0, 0>> is nan.         *)
(* A matrix is a sequence of rows, a vector a matrix of one column.        *)
(* Numerators and denominators are kept within MaxMagnitude: a value that  *)
(* needs more is Beyond, every operation on Beyond is Beyond, and a fit    *)
(* is followed only as far as its numbers are within the range.            *)
(***************************************************************************)
MaxMagnitude == 1000000000

\* a number outside the range
Beyond == <<0, -1>>

Abs(a) == IF a < 0 THEN -a ELSE a

Sgn(a) == IF a < 0 THEN -1 ELSE IF a > 0 THEN 1 ELSE 0

\* Below, CHOOSE r \in { F(x) : x \in {e} } : TRUE is F(e), written so that
\* e is computed once however often F uses it.
RECURSIVE Gcd(_, _)
Gcd(a, b) ==
    IF b = 0 THEN a ELSE CHOOSE g \in { Gcd(b, m) : m \in {a % b} } : TRUE

\* the product a * b is within the range
Fits(a, b) == b = 0 \/ Abs(a) <= MaxMagnitude \div Abs(b)

\* q, or Beyond when q is outside the range
Ranged(q) ==
    IF Abs(q[1]) > MaxMagnitude \/ q[2] > MaxMagnitude THEN Beyond ELSE q

Norm(n, d) ==
    IF d = 0 THEN <<Sgn(n), 0>>
    ELSE CHOOSE q \in { Ranged(<<Sgn(d) * (n \div g), Abs(d) \div g>>) :
                          g \in {Gcd(Abs(n), Abs(d))} } : TRUE

Q(n) == <<n, 1>>

Zero == Q(0)

One == Q(1)

IsFinite(a) == a[2] > 0

IsNan(a) == a = <<0, 0>>

RNeg(a) == CHOOSE q \in { <<-x[1], x[2]>> : x \in {a} } : TRUE

\* x + y for values x and y
Plus(x, y) ==
    IF x = Beyond \/ y = Beyond THEN Beyond
    ELSE IF x = Zero THEN y
    ELSE IF y = Zero THEN x
    ELSE IF IsFinite(x) /\ IsFinite(y)
    THEN CHOOSE q \in { IF Fits(x[1], y[2] \div g) /\ Fits(y[1], x[2] \div g)
                           /\ Fits(x[2] \div g, y[2])
                        THEN Norm(x[1] * (y[2] \div g) + y[1] * (x[2] \div g),
                                  (x[2] \div g) * y[2])
                        ELSE Beyond : g \in {Gcd(x[2], y[2])} } : TRUE
    ELSE IF IsNan(x) \/ IsNan(y) THEN <<0, 0>>
    ELSE IF ~IsFinite(x) /\ ~IsFinite(y) /\ x # y THEN <<0, 0>>
    ELSE IF IsFinite(x) THEN y ELSE x

RAdd(a, b) == CHOOSE q \in { Plus(x, y) : x \in {a}, y \in {b} } : TRUE

RSub(a, b) == RAdd(a, RNeg(b))

\* x * y for values x and y
Times(x, y) ==
    IF x = Beyond \/ y = Beyond THEN Beyond
    ELSE IF x = One THEN y
    ELSE IF y = One THEN x
    ELSE IF IsFinite(x) /\ IsFinite(y)
    THEN IF x = Zero \/ y = Zero THEN Zero
         ELSE CHOOSE q \in { IF Fits(x[1] \div g, y[1] \div h)
                                /\ Fits(x[2] \div h, y[2] \div g)
                             THEN Norm((x[1] \div g) * (y[1] \div h),
                                       (x[2] \div h) * (y[2] \div g))
                             ELSE Beyond :
                               g \in {Gcd(Abs(x[1]), y[2])},
                               h \in {Gcd(Abs(y[1]), x[2])} } : TRUE
    ELSE <<Sgn(x[1]) * Sgn(y[1]), 0>>

RMul(a, b) == CHOOSE q \in { Times(x, y) : x \in {a}, y \in {b} } : TRUE

\* x / y as numpy divides: a zero divisor gives inf, -inf or nan
Over(x, y) ==
    IF x = Beyond \/ y = Beyond THEN Beyond
    ELSE IF IsFinite(x) /\ IsFinite(y)
    THEN IF y[1] = 0 THEN <<Sgn(x[1]), 0>>
         ELSE CHOOSE q \in { IF Fits(x[1] \div g, y[2] \div h)
                                /\ Fits(x[2] \div h, y[1] \div g)
                             THEN Norm((x[1] \div g) * (y[2] \div h),
                                       (x[2] \div h) * (y[1] \div g))
                             ELSE Beyond :
                               g \in {Gcd(Abs(x[1]), Abs(y[1]))},
                               h \in {Gcd(x[2], y[2])} } : TRUE
    ELSE IF IsFinite(x) THEN (IF IsNan(y) THEN <<0, 0>> ELSE Zero)
    ELSE IF IsFinite(y) THEN <<x[1] * (IF y[1] < 0 THEN -1 ELSE 1), 0>>
    ELSE <<0, 0>>

RDiv(a, b) == CHOOSE q \in { Over(x, y) : x \in {a}, y \in {b} } : TRUE

\* x < y for values x and y, false when either is nan
\* a / b < c / d for b > 0 and d > 0, by whole parts and then remainders
RECURSIVE FracLess(_, _, _, _)
FracLess(a, b, c, d) ==
    IF a \div b # c \div d THEN a \div b < c \div d
    ELSE IF c % d = 0 THEN FALSE
    ELSE IF a % b = 0 THEN TRUE
    ELSE \E ra \in {a % b}, rc \in {c % d} : FracLess(d, rc, b, ra)

Below(x, y) ==
    IF IsNan(x) \/ IsNan(y) \/ x = Beyond \/ y = Beyond THEN FALSE
    ELSE IF IsFinite(x) /\ IsFinite(y)
    THEN FracLess(x[1], x[2], y[1], y[2])
    ELSE IF ~IsFinite(x) /\ ~IsFinite(y) THEN x[1] < y[1]
    ELSE IF IsFinite(x) THEN y[1] > 0
    ELSE x[1] < 0

RLess(a, b) == \E x \in {a}, y \in {b} : Below(x, y)

\* a <= b, false when either is nan
RLeq(a, b) == \E x \in {a}, y \in {b} : ~IsNan(x) /\ ~IsNan(y) /\ (x = y \/ Below(x, y))

RECURSIVE RSum(_)
RSum(seq) ==
    CHOOSE q \in { IF Len(s) = 0 THEN Zero ELSE RAdd(s[1], RSum(Tail(s))) :
                     s \in {SubSeq(seq, 1, Len(seq))} } : TRUE

RECURSIVE RPow(_, _)
RPow(a, m) ==
    IF m = 0 THEN One
    ELSE CHOOSE q \in { RMul(x, RPow(x, m - 1)) : x \in {a} } : TRUE

RAbs(a) == CHOOSE q \in { <<Abs(x[1]), x[2]>> : x \in {a} } : TRUE

RECURSIVE RProd(_)
RProd(seq) ==
    CHOOSE q \in { IF Len(s) = 0 THEN One ELSE RMul(s[1], RProd(Tail(s))) :
                     s \in {SubSeq(seq, 1, Len(seq))} } : TRUE

Rows(A) == Len(A)

Cols(A) == IF Len(A) = 0 THEN 0 ELSE Len(A[1])

Shape(A) == <<Rows(A), Cols(A)>>

\* the r x c array A, each entry computed once
Dense(A, r, c) == SubSeq([i \in 1 .. r |-> SubSeq(A[i], 1, c)], 1, r)

\* np.zeros((r, c))
Zeros(r, c) == Dense([i \in 1 .. r |-> [j \in 1 .. c |-> Zero]], r, c)

\* np.identity(m)
Identity(m) ==
    Dense([i \in 1 .. m |-> [j \in 1 .. m |-> IF i = j THEN One ELSE Zero]], m, m)

\* A.T
Transpose(A) ==
    CHOOSE R \in { Dense([j \in 1 .. Cols(a) |-> [i \in 1 .. Rows(a) |-> a[i][j]]],
                         Cols(a), Rows(a)) : a \in {A} } : TRUE

\* spdot(A, B): the matrix product
spdot(A, B) ==
    CHOOSE R \in { Dense([i \in 1 .. Rows(a) |->
                            [j \in 1 .. Cols(b) |->
                                RSum([l \in 1 .. Cols(a) |-> Times(a[i][l], b[l][j])])]],
                         Rows(a), Cols(b)) : a \in {A}, b \in {B} } : TRUE

MatAdd(A, B) ==
    CHOOSE R \in { Dense([i \in 1 .. Rows(a) |-> [j \in 1 .. Cols(a) |-> Plus(a[i][j], b[i][j])]],
                         Rows(a), Cols(a)) : a \in {A}, b \in {B} } : TRUE

MatSub(A, B) ==
    CHOOSE R \in { Dense([i \in 1 .. Rows(a) |-> [j \in 1 .. Cols(a) |-> RSub(a[i][j], b[i][j])]],
                         Rows(a), Cols(a)) : a \in {A}, b \in {B} } : TRUE

\* c * A
Scale(c, A) ==
    CHOOSE R \in { Dense([i \in 1 .. Rows(a) |-> [j \in 1 .. Cols(a) |-> Times(x, a[i][j])]],
                         Rows(a), Cols(a)) : x \in {c}, a \in {A} } : TRUE

\* A / c, elementwise
DivBy(A, c) ==
    CHOOSE R \in { Dense([i \in 1 .. Rows(a) |-> [j \in 1 .. Cols(a) |-> Over(a[i][j], x)]],
                         Rows(a), Cols(a)) : x \in {c}, a \in {A} } : TRUE

\* np.kron(np.identity(t), A): t copies of A down the diagonal
KronI(t, A) ==
    CHOOSE R \in { Dense([i \in 1 .. t * Rows(a) |->
                            [j \in 1 .. t * Cols(a) |->
                                IF (i - 1) \div Rows(a) = (j - 1) \div Cols(a)
                                THEN a[((i - 1) % Rows(a)) + 1][((j - 1) % Cols(a)) + 1]
                                ELSE Zero]],
                         t * Rows(a), t * Cols(a)) : a \in {A} } : TRUE

\* A.diagonal().sum()
Trace(A) == CHOOSE q \in { RSum([i \in 1 .. Rows(a) |-> a[i][i]]) : a \in {A} } : TRUE

\* np.vstack(blocks): the blocks one under the other
RECURSIVE VStack(_)
VStack(blocks) ==
    CHOOSE R \in { IF Len(bs) = 0 THEN <<>> ELSE bs[1] \o VStack(Tail(bs)) :
                     bs \in {blocks} } : TRUE

\* np.hstack(blocks): the blocks side by side
RECURSIVE HStack(_)
HStack(blocks) ==
    CHOOSE R \in { IF Len(bs) = 1 THEN bs[1]
                   ELSE CHOOSE S \in { SubSeq([i \in 1 .. Rows(bs[1]) |-> bs[1][i] \o rest[i]],
                                              1, Rows(bs[1])) :
                                         rest \in {HStack(Tail(bs))} } : TRUE :
                     bs \in {blocks} } : TRUE

\* A[:-1, :-1]
DropLastRowCol(A) ==
    CHOOSE R \in { SubSeq([i \in 1 .. Rows(a) - 1 |-> SubSeq(a[i], 1, Cols(a) - 1)],
                          1, Rows(a) - 1) : a \in {A} } : TRUE

\* no entry of A is outside the range
InRange(A) ==
    \E a \in {A} : \A i \in 1 .. Rows(a) : \A j \in 1 .. Cols(a) : a[i][j] # Beyond

AllFinite(A) ==
    \E a \in {A} : \A i \in 1 .. Rows(a) : \A j \in 1 .. Cols(a) : IsFinite(a[i][j])

\* M with rows a and b exchanged
SwapRows(M, a, b) == [M EXCEPT ![a] = M[b], ![b] = M[a]]

\* one step of elimination on the value S, whose pivot is S[c][c]: the
\* pivot row scaled to a leading 1 and taken off every other row
Eliminate(S, c) ==
    CHOOSE E \in { Dense([r \in 1 .. Rows(S) |->
                            IF r = c THEN prow
                            ELSE IF S[r][c] = Zero THEN S[r]
                            ELSE [j \in 1 .. Cols(S) |->
                                     RSub(S[r][j], Times(S[r][c], prow[j]))]],
                         Rows(S), Cols(S)) :
                     prow \in {SubSeq([j \in 1 .. Cols(S) |-> Over(S[c][j], S[c][c])],
                                      1, Cols(S))} } : TRUE

\* Gauss-Jordan elimination of the augmented matrix M from column c on;
\* <<>> when a column has no pivot (the matrix is singular)
RECURSIVE GaussJordan(_, _)
GaussJordan(M, c) ==
    IF c > Rows(M) THEN M
    ELSE IF ~InRange(M)
    THEN Dense([i \in 1 .. Rows(M) |-> [j \in 1 .. Cols(M) |-> Beyond]], Rows(M), Cols(M))
    ELSE LET pivots == { r \in c .. Rows(M) : M[r][c] # Zero }
         IN  IF pivots = {} THEN <<>>
             ELSE CHOOSE G \in { GaussJordan(E, c + 1) :
                                   E \in {Eliminate(SwapRows(M, c, MinOf(pivots)), c)} } : TRUE

\* la.inv(A), spinv(A): ok is FALSE where numpy raises LinAlgError
\* ("Singular matrix")
MatInv(A) ==
    CHOOSE R \in { IF G = <<>> THEN [ok |-> FALSE, inv |-> <<>>]
                   ELSE [ok |-> TRUE,
                         inv |-> SubSeq([i \in 1 .. Len(G) |->
                                            SubSeq(G[i], Len(G) + 1, 2 * Len(G))],
                                        1, Len(G))] :
                     G \in {GaussJordan(HStack(<<A, Identity(Rows(A))>>), 1)} } : TRUE

\* the rows of the value S below row c less their multiples of row c
Reduce(S, c) ==
    SubSeq([r \in 1 .. Rows(S) |->
               IF r <= c THEN S[r]
               ELSE SubSeq([j \in 1 .. Cols(S) |->
                               RSub(S[r][j], Times(Over(S[r][c], S[c][c]), S[c][j]))],
                           1, Cols(S))],
           1, Rows(S))

\* the diagonal of U in an LU factorisation with row pivoting
RECURSIVE UDiagonal(_, _)
UDiagonal(M, c) ==
    IF c > Rows(M) THEN <<>>
    ELSE IF ~InRange(M) THEN SubSeq([i \in 1 .. Rows(M) |-> Beyond], c, Rows(M))
    ELSE LET pivots == { r \in c .. Rows(M) : M[r][c] # Zero }
         IN  IF pivots = {} THEN <<Zero>> \o UDiagonal(M, c + 1)
             ELSE CHOOSE D \in { <<S[c][c]>> \o
                                   CHOOSE T \in { UDiagonal(E, c + 1) :
                                                    E \in {Reduce(S, c)} } : TRUE :
                                   S \in {SwapRows(M, c, MinOf(pivots))} } : TRUE

(***************************************************************************)
(* Bounds of the panel inputs and of the search.                           *)
(***************************************************************************)
MaxT == 3
MaxK == 2
MaxWeight == 2
RhoDen == 2
MaxTrials == 2
EpsDen == 4
MaxIter == 4

\* the number of spatial units of the weights object, w.n
Units == 2

\* the entry of a 1 x 1 array
ScalarOf(A) == A[1][1]

(***************************************************************************)
(* demean_panel(arr, n, t): each unit's mean over the t periods taken off  *)
(* each of its observations; row (s - 1) * n + i is unit i in period s.    *)
(***************************************************************************)
UnitMean(arr, n, t, i, j) ==
    RDiv(RSum([s \in 1 .. t |-> arr[(s - 1) * n + i][j]]), Q(t))

demean_panel(arr, n, t) ==
    Dense([r \in 1 .. Rows(arr) |->
              [j \in 1 .. Cols(arr) |->
                  RSub(arr[r][j], UnitMean(arr, n, t, ((r - 1) % n) + 1, j))]],
          Rows(arr), Cols(arr))

\* lines 104-114: the lagged response and the two regressions on x
Regressions(sy, sx, W_nt) ==
    LET ylag == spdot(W_nt, sy)
        xtx == spdot(Transpose(sx), sx)
        xi == MatInv(xtx)
        xty == spdot(Transpose(sx), sy)
        xtyl == spdot(Transpose(sx), ylag)
        b0 == spdot(xi.inv, xty)
        b1 == spdot(xi.inv, xtyl)
    IN  IF ~xi.ok THEN [ok |-> FALSE]
        ELSE [ok |-> TRUE, xtx |-> xtx, b0 |-> b0, b1 |-> b1,
              e0 |-> MatSub(sy, spdot(sx, b0)),
              e1 |-> MatSub(ylag, spdot(sx, b1))]

(***************************************************************************)
(* lag_c_loglik_sp(rho, n, t, e0, e1, I, Wsp), lines 332-344.              *)
(* clike = (n*t/2) log(sig2) - t sum(log|U_ii|) is kept as its strictly    *)
(* increasing image exp(2 clike / t) = sig2^n / prod(|U_ii|)^2, with the   *)
(* values numpy's log and arithmetic give at 0: <<0, 1>> is clike = -inf   *)
(* (sig2 = 0), <<1, 0>> is clike = inf (a zero on the diagonal of U) and   *)
(* <<0, 0>> is nan (both).  singular says that U has a zero on its         *)
(* diagonal, where SuperLU may also raise "Factor is exactly singular".    *)
(***************************************************************************)
lag_c_loglik_sp(rho, n, t, e0, e1, I, Wsp) ==
    CHOOSE f \in {
        CHOOSE g \in { [clike |-> RDiv(RPow(sig2, n), Times(absdet, absdet)),
                        singular |-> (absdet = Zero)] :
                          sig2 \in {RDiv(ScalarOf(spdot(Transpose(er), er)), Q(n * t))},
                          absdet \in { RProd([i \in 1 .. Len(diag) |-> RAbs(diag[i])]) :
                                          diag \in {UDiagonal(a, 1)} } } : TRUE :
          er \in {MatSub(e0, Scale(rho, e1))},
          a \in {MatSub(I, Scale(rho, Wsp))} } : TRUE

\* bounds that reach beyond -1 and 1
WideBounds == <<Q(-2), Q(2)>>

\* the bounds handed to minimize_scalar, line 118
SearchBounds == <<Q(-1), Q(1)>>

\* the trial points a bounded search can evaluate: strictly inside bounds
TrialPoints(bounds) ==
    { g \in { Norm(r, RhoDen) : r \in (-2 * RhoDen) .. (2 * RhoDen) } :
          RLess(bounds[1], g) /\ RLess(g, bounds[2]) }

\* line 121: the attribute rho is the point the search returned
StoredRho(res) == res.x

\* lines 130-134
Coefficients(r, rho, sy) ==
    LET b == MatSub(r.b0, Scale(rho, r.b1))
        u == MatSub(r.e0, Scale(rho, r.e1))
    IN  [b |-> b, betas |-> VStack(<<b, <<<<rho>>>>>>), u |-> u,
         predy |-> MatSub(sy, u)]

(***************************************************************************)
(* inverse_prod(Wsp_nt, xb, rho, inv_method="power_exp", threshold): the   *)
(* reduced-form prediction (I - rho W)^-1 xb by the power series           *)
(* sum_j rho^j W^j xb, stopped when the increment is below the threshold   *)
(* relative to the running sum or after MaxIter increments; increments     *)
(* that do not decrease send it to the direct solve.  Norms are compared   *)
(* squared.                                                                *)
(***************************************************************************)
NormSq(vec) ==
    CHOOSE q \in { RSum([r \in 1 .. Rows(v) |-> Times(v[r][1], v[r][1])]) :
                     v \in {vec} } : TRUE

\* the direct solve of (I - rho W) z = data
DirectSolve(W, data, rho) ==
    CHOOSE p \in { IF G = <<>> THEN [ok |-> FALSE, z |-> <<>>, by |-> "direct"]
                   ELSE [ok |-> TRUE, by |-> "direct",
                         z |-> SubSeq([i \in 1 .. Len(G) |->
                                          SubSeq(G[i], Len(G) + 1, Len(G) + Cols(data))],
                                      1, Len(G))] :
                     G \in {GaussJordan(HStack(<<MatSub(Identity(Rows(W)), Scale(rho, W)),
                                                 data>>), 1)} } : TRUE

RECURSIVE PowerExpansion(_, _, _, _, _, _)
PowerExpansion(W, rho, thr, total, inc, count) ==
    CHOOSE pe \in {
        CHOOSE q \in {
            IF Beyond \in {n[1], n[2], n[3]}
            THEN [ok |-> FALSE, z |-> total, by |-> "beyond", iters |-> count]
            ELSE IF ~RLess(n[1], n[2])
            THEN [ok |-> FALSE, z |-> total, by |-> "diverged", iters |-> count]
            ELSE IF RLess(n[1], n[3]) \/ count >= MaxIter
            THEN [ok |-> TRUE, z |-> t[2], by |-> "series", iters |-> count]
            ELSE PowerExpansion(W, rho, thr, t[2], t[1], count + 1) :
              n \in {<<NormSq(t[1]), NormSq(inc),
                       RMul(RMul(thr, thr), NormSq(t[2]))>>} } : TRUE :
          t \in { <<inc1, MatAdd(total, inc1)>> :
                     inc1 \in {Scale(rho, spdot(W, inc))} } } : TRUE

\* the power expansion alone: its last sum is the result even where the
\* increments did not decrease
SeriesOnly(W, data, rho, thr) ==
    CHOOSE p \in { IF pe.by = "diverged" THEN [pe EXCEPT !.ok = TRUE, !.by = "series"]
                   ELSE pe :
                     pe \in {PowerExpansion(W, rho, thr, data, data, 1)} } : TRUE

inverse_prod(W, data, rho, thr) ==
    CHOOSE p \in { IF pe.ok \/ pe.by = "beyond" THEN pe
                   ELSE DirectSolve(W, data, rho) @@ [iters |-> pe.iters] :
                     pe \in {PowerExpansion(W, rho, thr, data, data, 1)} } : TRUE

(***************************************************************************)
(* The information matrix, lines 146-176.                                  *)
(***************************************************************************)
\* spfill_diagonal(a, val)
spfill_diagonal(a, val) ==
    CHOOSE R \in { Dense([i \in 1 .. Rows(m) |->
                            [j \in 1 .. Cols(m) |-> IF i = j THEN val ELSE m[i][j]]],
                         Rows(m), Cols(m)) : m \in {a} } : TRUE

\* lines 147-157
Traces(W, rho) ==
    LET a == spfill_diagonal(Scale(RNeg(rho), W), One)
        ai == MatInv(a)
        wai == spdot(W, ai.inv)
        waiTwai == spdot(Transpose(wai), wai)
    IN  IF ~ai.ok THEN [ok |-> FALSE]
        ELSE [ok |-> TRUE, wai |-> wai, waiTwai |-> waiTwai,
              tr1 |-> Trace(wai), tr2 |-> Trace(spdot(wai, wai)),
              tr3 |-> Trace(waiTwai)]

\* lines 159-165; x is the argument x of __init__
CrossTerms(x, xb, tr, t) ==
    LET wpredy == spdot(KronI(t, tr.wai), xb)
        wTwpredy == spdot(KronI(t, tr.waiTwai), xb)
    IN  [x |-> x, wpredy |-> wpredy,
         xTwpy |-> spdot(Transpose(x), wpredy),
         wpyTwpy |-> spdot(Transpose(xb), wTwpredy)]

\* a block whose rho-sigma2 entry lacks the factor t
InfoV3NoT(c) ==
    VStack(<<Zeros(c.k, 1), <<<<RDiv(c.tr1, c.sig2)>>>>,
             <<<<RDiv(Q(c.n * c.t), RMul(Q(2), RMul(c.sig2, c.sig2)))>>>>>>)

\* lines 169-170
InfoV1(c) ==
    VStack(<<DivBy(c.xtx, c.sig2), DivBy(Transpose(c.xTwpy), c.sig2), Zeros(1, c.k)>>)

\* lines 171-172
InfoV2(c) ==
    VStack(<<DivBy(c.xTwpy, c.sig2),
             <<<<RAdd(RMul(Q(c.t), RAdd(c.tr2, c.tr3)), RDiv(ScalarOf(c.wpyTwpy), c.sig2))>>>>,
             <<<<RDiv(RMul(Q(c.t), c.tr1), c.sig2)>>>>>>)

\* lines 173-174
InfoV3(c) ==
    VStack(<<Zeros(c.k, 1), <<<<RDiv(RMul(Q(c.t), c.tr1), c.sig2)>>>>,
             <<<<RDiv(Q(c.n * c.t), RMul(Q(2), RMul(c.sig2, c.sig2)))>>>>>>)

\* line 176
InfoMatrix(c) == HStack(<<InfoV1(c), InfoV2(c), InfoV3(c)>>)

\* the matrix la.inv leaves when its argument holds inf or nan
NanMatrix(m) == Dense([i \in 1 .. m |-> [j \in 1 .. m |-> <<0, 0>>]], m, m)

(***************************************************************************)
(* The arguments of a fit: the class constructed, the stacked response     *)
(* (n*t rows, one more when the panel is ragged), the covariates and the   *)
(* weights.  Row (s - 1) * n + i is unit i in period s.                    *)
(***************************************************************************)
\* a series with mean 1 over any two periods or more
Zigzag(s) == IF s = 1 THEN 0 ELSE IF s = 2 THEN 2 ELSE 1

\* the response: a trend in unit 1 and a zigzag in the others, or one that
\* is constant in time
YValue(kind, s, i) ==
    IF kind = "constant" THEN i ELSE IF i = 1 THEN s ELSE Zigzag(s)

\* the covariate columns: a trend in one unit each, or one column repeated
XValue(kind, j, s, i) ==
    IF kind = "collinear" \/ j = 1 THEN (IF i = 1 THEN s ELSE 0)
    ELSE IF j = 2 THEN (IF i = 2 THEN s ELSE 0)
    ELSE IF i = 1 THEN 2 - Zigzag(s) ELSE 0

PeriodOf(r, n) == ((r - 1) \div n) + 1

UnitOf(r, n) == ((r - 1) % n) + 1

\* the weights: no self-neighbours, a above and b below the diagonal
Weights(n, a, b) ==
    Dense([i \in 1 .. n |->
              [j \in 1 .. n |-> IF i = j THEN Zero ELSE IF i < j THEN Q(a) ELSE Q(b)]],
          n, n)

PanelInput(cls, t, k, extra, ykind, xkind, a, b) ==
    [cls |-> cls,
     n |-> Units,
     y |-> Dense([r \in 1 .. Units * t + extra |->
                     <<Q(YValue(ykind, PeriodOf(r, Units), UnitOf(r, Units)))>>],
                 Units * t + extra, 1),
     x |-> Dense([r \in 1 .. Units * t + extra |->
                     [j \in 1 .. k |->
                         Q(XValue(xkind, j, PeriodOf(r, Units), UnitOf(r, Units)))]],
                 Units * t + extra, k),
     W |-> Weights(Units, a, b),
     epsilon |-> <<1, EpsDen>>]

PanelInputs ==
    { PanelInput(cls, t, k, extra, ykind, xkind, a, b) :
          cls \in {"BasePanel_FE_Lag", "Panel_FE_Lag"},
          t \in 1 .. MaxT, k \in 1 .. MaxK, extra \in {0, 1},
          ykind \in {"varying", "constant"},
          xkind \in {"independent", "collinear"},
          a \in 1 .. MaxWeight, b \in 1 .. MaxWeight }

NoTrial == [rho |-> Zero, singular |-> FALSE, outcome |-> "none", fu |-> Zero]

NoSearch ==
    [n_trials |-> 0, xf |-> Zero, fx |-> Zero, last |-> NoTrial,
     returned |-> FALSE, success |-> FALSE]

NoAttrs == <<>>

PInit ==
    /\ formula = [type |-> "none"]
    /\ call = Idle
    /\ inp \in PanelInputs
    /\ stage = IF inp.cls = "Panel_FE_Lag" THEN "Unchecked" ELSE "Uninitialized"
    /\ entered = <<>>
    /\ self = NoAttrs
    /\ loc = NoAttrs
    /\ srch = NoSearch
    /\ exc = ""
    /\ returned = "none"

\* an exception leaves __init__: the caller gets it and no object
Raise(msg) ==
    /\ stage' = "Failed"
    /\ exc' = msg
    /\ returned' = "exception"

Enter(name) ==
    /\ stage' = name
    /\ entered' = Append(entered, name)

\* Panel_FE_Lag.__init__, lines 307-312: the checks of the arguments
Validate ==
    /\ stage = "Unchecked"
    /\ \/ /\ Rows(inp.y) = inp.n * (Rows(inp.y) \div inp.n)
          /\ stage' = "Uninitialized"
          /\ UNCHANGED <<exc, returned>>
       \/ Raise("check_arrays / check_panel / check_weights raised")
    /\ UNCHANGED <<formula, call, inp, entered, self, loc, srch>>

\* lines 91-98
Demean ==
    /\ stage = "Uninitialized"
    /\ LET n == inp.n
           t == Rows(inp.y) \div n
       IN  IF Rows(inp.y) # n * t
           THEN /\ Raise("ValueError: shapes not aligned")
                /\ self' = [n |-> n, t |-> t, k |-> Cols(inp.x),
                            epsilon |-> inp.epsilon]
                /\ UNCHANGED entered
           ELSE /\ InRange(demean_panel(inp.y, n, t))
                /\ InRange(demean_panel(inp.x, n, t))
                /\ Enter("Demeaned")
                /\ self' = [n |-> n, t |-> t, k |-> Cols(inp.x),
                            epsilon |-> inp.epsilon,
                            y |-> demean_panel(inp.y, n, t),
                            x |-> demean_panel(inp.x, n, t)]
                /\ UNCHANGED <<exc, returned>>
    /\ UNCHANGED <<formula, call, inp, loc, srch>>

\* lines 99-103
BuildOperator ==
    /\ stage = "Demeaned"
    /\ Enter("OperatorBuilt")
    /\ loc' = [W |-> inp.W, W_nt |-> KronI(self.t, inp.W),
               Wsp |-> inp.W, Wsp_nt |-> KronI(self.t, inp.W)]
    /\ UNCHANGED <<formula, call, inp, self, srch, exc, returned>>

\* lines 104-120: the regressions, and minimize_scalar is entered
StartSearch ==
    /\ stage = "OperatorBuilt"
    /\ \E r \in {Regressions(self.y, self.x, loc.W_nt)} :
           IF r.ok
           THEN /\ InRange(r.b0) /\ InRange(r.b1) /\ InRange(r.e0) /\ InRange(r.e1)
                /\ stage' = "Searching"
                /\ loc' = loc @@ [r |-> r, I |-> Identity(self.n)]
                /\ UNCHANGED <<exc, returned>>
           ELSE /\ Raise("LinAlgError: Singular matrix")
                /\ UNCHANGED loc
    /\ UNCHANGED <<formula, call, inp, entered, self, srch>>

\* minimize_scalar calls lag_c_loglik_sp at one more trial point
SearchTrial ==
    /\ stage = "Searching"
    /\ srch.n_trials < MaxTrials
    /\ \E g \in TrialPoints(SearchBounds) :
          \E f \in {lag_c_loglik_sp(g, self.n, self.t, loc.r.e0, loc.r.e1, loc.I, loc.Wsp)} :
          LET better == srch.n_trials = 0 \/ RLeq(f.clike, srch.fx)
          IN  /\ f.clike # Beyond
              /\ \/ /\ f.singular
                    /\ Raise("RuntimeError: Factor is exactly singular")
                    /\ srch' = [srch EXCEPT !.n_trials = @ + 1,
                           !.last = [rho |-> g, singular |-> TRUE,
                                     outcome |-> "raised", fu |-> <<0, 0>>]]
                 \/ /\ srch' = [srch EXCEPT !.n_trials = @ + 1,
                           !.xf = IF better THEN g ELSE @,
                           !.fx = IF better THEN f.clike ELSE @,
                           !.last = [rho |-> g, singular |-> f.singular,
                                     outcome |-> "value", fu |-> f.clike]]
                    /\ UNCHANGED <<stage, exc, returned>>
    /\ UNCHANGED <<formula, call, inp, entered, self, loc>>

\* minimize_scalar returns res, and its last trial is no longer held;
\* lines 121-134
SearchReturn ==
    /\ stage = "Searching"
    /\ srch.n_trials >= 1
    /\ \E success \in BOOLEAN :
          /\ ~success => (srch.n_trials = MaxTrials \/ IsNan(srch.fx))
          /\ success => ~IsNan(srch.fx)
          /\ LET res == [x |-> srch.xf, fun |-> srch.fx, success |-> success]
                 rho == StoredRho(res)
             IN  \E c \in {Coefficients(loc.r, rho, self.y)} :
                 /\ InRange(c.betas) /\ InRange(c.u) /\ InRange(c.predy)
                 /\ srch' = [srch EXCEPT !.returned = TRUE, !.success = success,
                                         !.last = NoTrial]
                 /\ self' = self @@ [rho |-> rho, logll |-> [minus |-> res.fun],
                                     betas |-> c.betas, u |-> c.u,
                                     predy |-> c.predy]
                 /\ loc' = loc @@ [res |-> res, b |-> c.b]
    /\ Enter("Searched")
    /\ UNCHANGED <<formula, call, inp, exc, returned>>

\* lines 136-140
Predict ==
    /\ stage = "Searched"
    /\ \E xb \in {spdot(self.x, loc.b)} :
       \E p \in {inverse_prod(loc.Wsp_nt, xb, self.rho, self.epsilon)} :
           /\ InRange(xb) /\ p.by # "beyond" /\ InRange(p.z)
           /\ IF p.ok
              THEN /\ Enter("Predicted")
                   /\ self' = self @@ [predy_e |-> p.z, e_pred |-> MatSub(self.y, p.z)]
                   /\ loc' = loc @@ [xb |-> xb, predicted_by |-> p.by, iters |-> p.iters]
                   /\ UNCHANGED <<exc, returned>>
              ELSE /\ Raise("inverse_prod raised")
                   /\ UNCHANGED <<entered, self, loc>>
    /\ UNCHANGED <<formula, call, inp, srch>>

\* line 144: the residual variance
ResidualVariance(u, n, t) == RDiv(ScalarOf(spdot(Transpose(u), u)), Q(n * t))

\* lines 142-165: what the blocks of the information matrix are built from
InfoTerms(tr) ==
    LET ct == CrossTerms(inp.x, loc.xb, tr, self.t)
    IN  [k |-> self.k, n |-> self.n, t |-> self.t,
         sig2 |-> ResidualVariance(self.u, self.n, self.t),
         xtx |-> loc.r.xtx, xTwpy |-> ct.xTwpy, wpyTwpy |-> ct.wpyTwpy,
         cross_x |-> ct.x, wpredy |-> ct.wpredy,
         tr1 |-> tr.tr1, tr2 |-> tr.tr2, tr3 |-> tr.tr3]

\* lines 142-179
Covariance ==
    /\ stage = "Predicted"
    /\ \E tr \in {Traces(loc.W, self.rho)} :
           IF ~tr.ok
           THEN /\ Raise("LinAlgError: Singular matrix")
                /\ self' = self @@ [cache |-> <<>>,
                                    sig2 |-> ResidualVariance(self.u, self.n, self.t)]
                /\ UNCHANGED <<entered, loc>>
           ELSE
             \E c \in {InfoTerms(tr)} :
             \E v \in {InfoMatrix(c)} :
             \E vi \in {MatInv(v)} :
             LET attrs == self @@ [cache |-> <<>>, sig2 |-> c.sig2]
             IN  /\ InRange(v) /\ InRange(vi.inv)
                 /\ \/ /\ AllFinite(v) /\ vi.ok
                       /\ Enter("CovarianceBuilt")
                       /\ self' = attrs @@ [vm1 |-> vi.inv,
                                            vm |-> DropLastRowCol(vi.inv)]
                       /\ loc' = loc @@ [v |-> v, c |-> c]
                       /\ UNCHANGED <<exc, returned>>
                    \/ /\ ~AllFinite(v)
                       /\ Enter("CovarianceBuilt")
                       /\ self' = attrs @@ [vm1 |-> NanMatrix(Rows(v)),
                                            vm |-> DropLastRowCol(NanMatrix(Rows(v)))]
                       /\ loc' = loc @@ [v |-> v, c |-> c]
                       /\ UNCHANGED <<exc, returned>>
                    \/ /\ ~(AllFinite(v) /\ vi.ok)
                       /\ Raise("LinAlgError: Singular matrix")
                       /\ self' = attrs
                       /\ UNCHANGED <<entered, loc>>
    /\ UNCHANGED <<formula, call, inp, srch>>

\* line 180; BasePanel_FE_Lag(...) then hands the object to its caller
Finish ==
    /\ stage = "CovarianceBuilt"
    /\ Enter("Done")
    /\ self' = [self EXCEPT !.n = self.n * self.t]
    /\ returned' = IF inp.cls = "BasePanel_FE_Lag" THEN "object" ELSE returned
    /\ UNCHANGED <<formula, call, inp, loc, srch, exc>>

\* Panel_FE_Lag.__init__, lines 316-329
PanelFinish ==
    /\ stage = "Done"
    /\ inp.cls = "Panel_FE_Lag"
    /\ returned = "none"
    /\ self' = [self EXCEPT !.k = @ + 1]
                   @@ [title |-> "MAXIMUM LIKELIHOOD SPATIAL LAG PANEL - FIXED EFFECTS"]
    /\ returned' = "object"
    /\ UNCHANGED <<formula, call, inp, stage, entered, loc, srch, exc>>

PNext ==
    \/ Validate
    \/ Demean
    \/ BuildOperator
    \/ StartSearch
    \/ SearchTrial
    \/ SearchReturn
    \/ Predict
    \/ Covariance
    \/ Finish
    \/ PanelFinish

PanelSpec == PInit /\ [][PNext]_vars

(***************************************************************************)
(* The claims about the panel estimator.                                   *)
(***************************************************************************)
StageOrder ==
    <<"Demeaned", "OperatorBuilt", "Searched", "Predicted", "CovarianceBuilt", "Done">>

\* the stage name has been entered in this fit
Entered(name) == \E i \in 1 .. Len(entered) : entered[i] = name

\* C6: a fit passes through Demeaned, Operator-Built, Searched, Predicted,
\* Covariance-Built, Done in that order, each at most once; when a stage
\* fails (the search reporting non-convergence included) no later stage runs
\* and the caller gets that stage's error, never an object.
C6_StagesInOrderOrError ==
    /\ Len(entered) <= Len(StageOrder)
    /\ entered = SubSeq(StageOrder, 1, Len(entered))
    /\ stage = "Failed" => (returned = "exception" /\ exc # "")
    /\ returned = "object" => (stage = "Done" /\ exc = "")
    /\ (srch.returned /\ ~srch.success) =>
           (~Entered("Predicted") /\ returned # "object")

\* C7: a trial rho at which I - rho W is singular is signalled as a failed
\* trial: it neither raises out of the fit nor hands the search an infinite
\* or undefined value of the likelihood.
C7_SingularTrialContained ==
    srch.last.singular =>
        /\ srch.last.outcome # "raised"
        /\ stage # "Failed"
        /\ IsFinite(srch.last.fu)

\* C8: once the search has returned, the attribute rho is the point the
\* search returned, it lies strictly between -1 and 1, and it stays so in
\* every later stage and in the object returned (betas ends with it).
C8_RhoInsideOpenInterval ==
    Entered("Searched") =>
        /\ self.rho = loc.res.x
        /\ RLess(Q(-1), self.rho)
        /\ RLess(self.rho, Q(1))
        /\ self.betas[Rows(self.betas)] = <<self.rho>>

\* a fit completed with a rho other than 0
C8_Witness ==
    /\ returned = "object"
    /\ self.rho # Zero
    /\ self.rho = srch.xf

\* C9: in a returned object with k = self.k, betas has k + 1 rows and ends
\* with rho, vm1 is (k + 2) x (k + 2), vm is (k + 1) x (k + 1) and vm is vm1
\* without its last row and column.
C9_ShapesAgreeWithK ==
    returned = "object" =>
        /\ Shape(self.betas) = <<self.k + 1, 1>>
        /\ self.betas[Rows(self.betas)] = <<self.rho>>
        /\ Shape(self.vm1) = <<self.k + 2, self.k + 2>>
        /\ Shape(self.vm) = <<self.k + 1, self.k + 1>>
        /\ self.vm = DropLastRowCol(self.vm1)

\* the information matrix of this fit was built, and is finite
ValidInfo == Entered("CovarianceBuilt") /\ AllFinite(loc.v)

\* C10: a finite information matrix is its own transpose: the beta-rho block
\* is the transpose of the rho-beta block, the two rho-sigma2 entries are
\* equal, the beta-sigma2 blocks are zero; and its inverse vm1 is symmetric.
C10_InformationSymmetric ==
    ValidInfo =>
        LET v == loc.v
            k == loc.c.k
        IN  /\ Shape(v) = <<k + 2, k + 2>>
            /\ v = Transpose(v)
            /\ \A i \in 1 .. k : v[i][k + 1] = v[k + 1][i]
            /\ v[k + 1][k + 2] = v[k + 2][k + 1]
            /\ \A i \in 1 .. k : v[i][k + 2] = Zero /\ v[k + 2][i] = Zero
            /\ self.vm1 = Transpose(self.vm1)

\* a finite information matrix whose off-diagonal blocks are not zero
C10_Witness ==
    /\ ValidInfo
    /\ returned = "object"
    /\ loc.v[1][loc.c.k + 1] # Zero
    /\ loc.v[loc.c.k + 1][loc.c.k + 2] # Zero

\* the squared norms of the terms rho^j W^j data of the series, j = 0 .. m
RECURSIVE TermNorms(_, _, _, _)
TermNorms(W, rho, term, m) ==
    CHOOSE ns \in { <<NormSq(x)>> \o
                      (IF m = 0 THEN <<>>
                       ELSE TermNorms(W, rho, Scale(rho, spdot(W, x)), m - 1)) :
                      x \in {term} } : TRUE

\* the terms up to the one the prediction stopped at
StepNorms == TermNorms(loc.Wsp_nt, self.rho, loc.xb, loc.iters)

\* C11: the prediction step ends after at most MaxIter terms of the power
\* series; a sum of the series is its result only where every term taken was
\* smaller than the one before, and where a term failed to decrease the
\* result is the direct solve of (I - rho W) z = xb.
C11_PredictionTerminates ==
    stage = "Predicted" =>
        /\ loc.iters \in 1 .. MaxIter
        /\ loc.predicted_by \in {"series", "direct"}
        /\ \E ns \in {StepNorms} :
              /\ loc.predicted_by = "series" =>
                     \A j \in 1 .. loc.iters : RLess(ns[j + 1], ns[j])
              /\ loc.predicted_by = "direct" =>
                     /\ ~RLess(ns[loc.iters + 1], ns[loc.iters])
                     /\ \A j \in 1 .. loc.iters - 1 : RLess(ns[j + 1], ns[j])
                     /\ spdot(MatSub(Identity(Rows(loc.Wsp_nt)),
                                     Scale(self.rho, loc.Wsp_nt)),
                              self.predy_e) = loc.xb

\* a prediction that took the direct solve after terms that had decreased
C11_Witness ==
    /\ stage = "Predicted"
    /\ loc.predicted_by = "direct"
    /\ loc.iters > 1

\* C13: the covariate terms of the information matrix come from the
\* demeaned covariates self.x, never from the argument x: xtx is
\* self.x' self.x, and the cross term xTwpy is the product of self.x' with
\* wpredy, self.x being the matrix that product is taken of.
C13_CovariateTermsFromDemeaned ==
    stage = "CovarianceBuilt" =>
        /\ loc.c.xtx = spdot(Transpose(self.x), self.x)
        /\ loc.c.xTwpy = spdot(Transpose(self.x), loc.c.wpredy)
        /\ loc.c.cross_x = self.x

====
